---- MODULE Spec2Model ----
(***************************************************************************)
(* Model of multi_audio_importer.py: the extract operator                  *)
(* AUDIO_OT_ExtractAdditionalTracks.execute, the scanner get_audio_tracks  *)
(* and the host timeline (sequence editor) the operator mutates.           *)
(*                                                                         *)
(* One run of execute is modelled as a sequence of steps; pc is the        *)
(* position in execute.  Everything the operator reads from outside (the   *)
(* probe tool, the transcode tool, the file system, the host primitives    *)
(* new_sound and meta_make) is a nondeterministic choice at the step that  *)
(* reads it.  Floating point seconds and rates are exact rationals,        *)
(* written <<numerator, denominator>>.                                     *)
(***************************************************************************)
EXTENDS Integers, Sequences, FiniteSets, TLC

VARIABLES
    pc,                       \* position in execute
    status,                   \* value returned by execute: "" while running
    reports,                  \* self.report calls made so far (a set)
    progress,                 \* wm.progress_begin / progress_update / progress_end
    sequence_editor,          \* context.scene.sequence_editor is not None
    strips,                   \* seq_editor.strips_all: strip id -> strip
    active_strip,             \* seq_editor.active_strip (0: None)
    strips0,                  \* the timeline before the run (history)
    project_fps,              \* scene.render.fps / scene.render.fps_base
    selected_strip,           \* local selected_strip (0: None)
    found_audio_info,         \* local found_audio_info
    actual_video_fps,         \* local actual_video_fps
    original,                 \* locals original_strip_name .. original_frame_offset_end
    occupied_channels,        \* local occupied_channels
    extraction_start_channel, \* local extraction_start_channel
    next_channel,             \* local next_channel
    created_audio_strips,     \* local created_audio_strips (strip ids)
    i,                        \* loop index of the extraction loop (1-based)
    jobs,                     \* one record per additional track
    meta_strip,               \* local meta_strip (0: unset)
    composite,                \* the strip meta_make produced in this run (0: none)
    scan_run,                 \* what the probe run of get_audio_tracks gave (history)
    fps_run,                  \* what the frame rate probe gave (history)
    duration_run,             \* what the duration probe gave (history)
    proc                      \* the process run_ffmpeg_with_progress monitors

vars == <<pc, status, reports, progress, sequence_editor, strips, active_strip,
          strips0, project_fps, selected_strip, found_audio_info,
          actual_video_fps, original, occupied_channels,
          extraction_start_channel, next_channel, created_audio_strips, i,
          jobs, meta_strip, composite, scan_run, fps_run, duration_run, proc>>

(***************************************************************************)
(* Bounds of the model.                                                    *)
(***************************************************************************)
\* most audio streams a scanned file holds
MaxStreams == 3
\* highest channel a strip of the initial timeline sits on
MaxChannel == 2
\* polls of the monitoring loop after which the timeout of a job has passed
TimeoutPolls == 2

(***************************************************************************)
(* Program constants.                                                      *)
(***************************************************************************)
temp_extraction_start == 1000
DurationTolerance == 1

(***************************************************************************)
(* Rationals <<n, d>> with d > 0, compared by cross-multiplication.        *)
(***************************************************************************)
RatEq(a, b) == a[1] * b[2] = b[1] * a[2]
RatLess(a, b) == a[1] * b[2] < b[1] * a[2]
\* frames / rate, the rate being <<n, d>> with n > 0
FramesOverRate(frames, rate) == <<frames * rate[2], rate[1]>>

Max(S) == CHOOSE x \in S : \A y \in S : y <= x
Min(S) == CHOOSE x \in S : \A y \in S : x <= y
Abs(x) == IF x < 0 THEN -x ELSE x
Range(s) == {s[k] : k \in DOMAIN s}

(***************************************************************************)
(* The host timeline.                                                      *)
(***************************************************************************)
\* strip.frame_final_duration
frame_final_duration(s) == s.length - s.frame_offset_start - s.frame_offset_end
\* strip.frame_final_start
frame_final_start(s) == s.frame_start + s.frame_offset_start
\* strip.frame_final_end
frame_final_end(s) == frame_final_start(s) + frame_final_duration(s)

\* two strips stand on the same channel of the same level with overlapping frames
Overlap(s, t) ==
    /\ s.parent = t.parent
    /\ s.channel = t.channel
    /\ frame_final_start(s) < frame_final_end(t)
    /\ frame_final_start(t) < frame_final_end(s)

NoName == [prefix |-> "", title |-> "", index |-> 0]
ClipName == [prefix |-> "", title |-> "clip", index |-> 0]
OtherName(k) == [prefix |-> "", title |-> "other", index |-> k]

\* frames of the source media file behind the original clip
SourceLengths == {1008}
\* the trims (frame_offset_start, frame_offset_end) the user may have applied
Trims == {<<0, 0>>, <<48, 0>>, <<48, 12>>}
OriginalStarts == {5}

OriginalStrips(trims, selects) ==
    { [name |-> ClipName, type |-> "MOVIE", channel |-> c, frame_start |-> fs,
       frame_offset_start |-> tr[1], frame_offset_end |-> tr[2],
       length |-> SourceFrames, select |-> sel, parent |-> 0]
      : c \in 1..MaxChannel, fs \in OriginalStarts, tr \in trims,
        SourceFrames \in SourceLengths, sel \in selects }

\* other strips of the initial timeline: a sound strip standing where the
\* temporary extraction area will be, a meta strip, a second selected sound strip
OtherShapes ==
    { [type |-> "SOUND", frame_start |-> 990, length |-> 60, select |-> FALSE],
      [type |-> "META", frame_start |-> 2000, length |-> 60, select |-> FALSE],
      [type |-> "SOUND", frame_start |-> 2000, length |-> 60, select |-> TRUE] }

OtherStrips(k) ==
    { [name |-> OtherName(k), type |-> sh.type, channel |-> c,
       frame_start |-> sh.frame_start, frame_offset_start |-> 0,
       frame_offset_end |-> 0, length |-> sh.length, select |-> sh.select,
       parent |-> 0]
      : c \in 1..MaxChannel, sh \in OtherShapes }

\* the timelines a run may start from: the original clip is strip 1, alone
\* (selected or not, with any trim) or, selected and trimmed at both ends,
\* with one other strip that does not overlap it
Timelines ==
    { <<o>> : o \in OriginalStrips(Trims, BOOLEAN) }
    \cup { tl \in { <<o, t>> : o \in OriginalStrips({<<48, 12>>}, {TRUE}),
                               t \in OtherStrips(2) } :
               ~Overlap(tl[1], tl[2]) }

\* the strips that may be the active one: none when the original stands
\* alone, else the original or a meta strip
ActiveStrips(tl) ==
    IF Len(tl) = 1 THEN {0}
    ELSE {1} \cup {k \in DOMAIN tl : tl[k].type = "META"}

ProjectRates == {<<30, 1>>}

(***************************************************************************)
(* get_audio_tracks: one run of the probe tool.                            *)
(***************************************************************************)
\* the audio streams of a file holding n of them, in probe order
Streams(n) == [k \in 1..n |-> [index |-> k]]

\* what subprocess.run may give: an exception, or an exit code with the stdout
ScanRuns ==
    { [raised |-> x, returncode |-> 0, stdout |-> "blank", streams |-> <<>>]
      : x \in {"TimeoutExpired", "OSError"} }
    \cup
    { [raised |-> "", returncode |-> rc, stdout |-> out, streams |-> <<>>]
      : rc \in {0, 1}, out \in {"blank", "malformed"} }
    \cup
    { [raised |-> "", returncode |-> rc, stdout |-> "json", streams |-> Streams(n)]
      : rc \in {0, 1}, n \in 0..MaxStreams }

ScanError(error, detail) == [error |-> error, detail |-> detail, streams |-> <<>>]

\* get_audio_tracks taking blank output for an empty stream list
get_audio_tracks_BlankIsEmpty(run) ==
    IF run.raised = "TimeoutExpired"
    THEN ScanError("ffprobe_timeout", "ffprobe timed out after 30 seconds")
    ELSE IF run.raised # ""
    THEN ScanError("ffprobe_unexpected_error", "Unexpected error running ffprobe")
    ELSE IF run.returncode # 0
    THEN ScanError("ffprobe_failed", "ffprobe failed")
    ELSE IF run.stdout = "malformed"
    THEN ScanError("json_decode_error", "Error parsing ffprobe output")
    ELSE [error |-> "", detail |-> "", streams |-> run.streams]

\* get_audio_tracks looking at the exit code only when stdout is blank
get_audio_tracks_StdoutFirst(run) ==
    IF run.raised = "TimeoutExpired"
    THEN ScanError("ffprobe_timeout", "ffprobe timed out after 30 seconds")
    ELSE IF run.raised # ""
    THEN ScanError("ffprobe_unexpected_error", "Unexpected error running ffprobe")
    ELSE IF run.stdout = "malformed"
    THEN ScanError("json_decode_error", "Error parsing ffprobe output")
    ELSE IF run.stdout = "json"
    THEN [error |-> "", detail |-> "", streams |-> run.streams]
    ELSE IF run.returncode # 0
    THEN ScanError("ffprobe_failed", "ffprobe failed")
    ELSE ScanError("ffprobe_empty_output", "ffprobe returned no output")

get_audio_tracks(run) ==
    IF run.raised = "TimeoutExpired"
    THEN ScanError("ffprobe_timeout", "ffprobe timed out after 30 seconds")
    ELSE IF run.raised # ""
    THEN ScanError("ffprobe_unexpected_error", "Unexpected error running ffprobe")
    ELSE IF run.returncode # 0
    THEN ScanError("ffprobe_failed", "ffprobe failed")
    ELSE IF run.stdout = "blank"
    THEN ScanError("ffprobe_empty_output", "ffprobe returned no output")
    ELSE IF run.stdout = "malformed"
    THEN ScanError("json_decode_error", "Error parsing ffprobe output")
    ELSE [error |-> "", detail |-> "", streams |-> run.streams]

\* isinstance(found_audio_info, dict) and "error" in found_audio_info
ScanFailed(info) == info.error # ""

\* the test letting a single stream through
NothingToExtract_OffByOne(streams) == Len(streams) < 1

\* not found_audio_streams, or len(found_audio_streams) <= 1
NothingToExtract(streams) == Len(streams) <= 1

(***************************************************************************)
(* Reports and the ends of execute.                                        *)
(***************************************************************************)
Report(level, text, detail, arg) ==
    [level |-> level, text |-> text, detail |-> detail, arg |-> arg]

NoInfo == [error |-> "", detail |-> "", streams |-> <<>>]
NoOriginal == [name |-> NoName, channel |-> 0, frame_start |-> 0,
               frame_final_start |-> 0, frame_final_end |-> 0,
               frame_final_duration |-> 0, frame_offset_start |-> 0,
               frame_offset_end |-> 0]
NoProgress == [begun |-> 0, ended |-> 0, value |-> <<0, 1>>]
NoFpsRun == [raised |-> "", returncode |-> 0, stdout |-> [form |-> "not_run", a |-> 0, b |-> 1]]
NoScanRun == [raised |-> "", returncode |-> 0, stdout |-> "not_run", streams |-> <<>>]
NoDurationRun == "not_run"
\* no process is monitored
NoProcess == [state |-> "none", elapsed |-> 0, last_progress |-> <<0, 1>>]

\* a value of the progress bar, which wm.progress_begin(0, 100) scales 0..100
Percent(n) == <<n, 1>>

Init ==
    /\ pc = "start"
    /\ status = ""
    /\ reports = {}
    /\ progress = NoProgress
    /\ sequence_editor \in BOOLEAN
    /\ strips \in IF sequence_editor THEN Timelines ELSE {<<>>}
    /\ active_strip \in IF sequence_editor THEN ActiveStrips(strips) ELSE {0}
    /\ strips0 = strips
    /\ project_fps \in ProjectRates
    /\ selected_strip = 0
    /\ found_audio_info = NoInfo
    /\ actual_video_fps = <<0, 1>>
    /\ original = NoOriginal
    /\ occupied_channels = {}
    /\ extraction_start_channel = 0
    /\ next_channel = 0
    /\ created_audio_strips = <<>>
    /\ i = 0
    /\ jobs = <<>>
    /\ meta_strip = 0
    /\ composite = 0
    /\ scan_run = NoScanRun
    /\ fps_run = NoFpsRun
    /\ duration_run = NoDurationRun
    /\ proc = NoProcess

locals == <<selected_strip, found_audio_info, actual_video_fps, original,
            occupied_channels, extraction_start_channel, next_channel,
            created_audio_strips, i, jobs, meta_strip>>
timeline == <<sequence_editor, strips, active_strip, strips0, project_fps, composite>>
probes == <<scan_run, fps_run, duration_run>>

\* a return before the try block: no progress bar to end
ReturnEarly(st, rep) ==
    /\ pc' = "done"
    /\ status' = st
    /\ reports' = reports \cup rep
    /\ UNCHANGED progress

\* a return inside the try block without the finally clause
Return_NoFinally(st, rep, value) ==
    /\ pc' = "done"
    /\ status' = st
    /\ reports' = reports \cup rep
    /\ progress' = [progress EXCEPT !.value = value]

\* a return inside the try block: the finally clause ends the progress bar
Return(st, rep, value) ==
    /\ pc' = "done"
    /\ status' = st
    /\ reports' = reports \cup rep
    /\ progress' = [progress EXCEPT !.ended = @ + 1, !.value = value]

\* a step that stays in execute
Goto(next, rep, value) ==
    /\ pc' = next
    /\ status' = status
    /\ reports' = reports \cup rep
    /\ progress' = [progress EXCEPT !.value = value]

\* the strips the selection loop of execute accepts
Selectable == {k \in DOMAIN strips :
                 strips[k].select /\ strips[k].type \in {"MOVIE", "SOUND"}}

\* execute, from its entry to wm.progress_begin
PreChecks ==
    /\ pc = "start"
    /\ UNCHANGED <<proc, timeline, probes, found_audio_info, actual_video_fps, original,
                   occupied_channels, extraction_start_channel, next_channel,
                   created_audio_strips, i, jobs, meta_strip>>
    /\ IF ~sequence_editor
       THEN /\ ReturnEarly("CANCELLED", {Report("ERROR", "No sequence editor available", "", 0)})
            /\ UNCHANGED selected_strip
       ELSE IF Cardinality(Selectable) > 1
       THEN /\ ReturnEarly("CANCELLED", {Report("ERROR", "Multiple strips selected", "", 0)})
            /\ selected_strip' = Min(Selectable)
       ELSE IF Selectable = {}
       THEN /\ ReturnEarly("CANCELLED", {Report("ERROR", "No video or audio strip selected", "", 0)})
            /\ UNCHANGED selected_strip
       ELSE \E isfile \in BOOLEAN :
            /\ selected_strip' = Min(Selectable)
            /\ IF ~isfile
               THEN ReturnEarly("CANCELLED", {Report("ERROR", "Source file not found", "", 0)})
               ELSE /\ pc' = "scan"
                    /\ progress' = [begun |-> progress.begun + 1, ended |-> progress.ended, value |-> <<0, 1>>]
                    /\ UNCHANGED <<status, reports>>

\* Phase 1: the scan and the branch on its result
Scan ==
    /\ pc = "scan"
    /\ UNCHANGED <<proc, timeline, fps_run, duration_run, selected_strip, actual_video_fps, original,
                   occupied_channels, extraction_start_channel, next_channel,
                   created_audio_strips, i, jobs, meta_strip>>
    /\ \E run \in ScanRuns :
       LET info == get_audio_tracks(run) IN
       /\ scan_run' = run
       /\ found_audio_info' = info
       /\ IF ScanFailed(info)
          THEN Return("CANCELLED", {Report("ERROR", "Failed to scan audio tracks", info.detail, 0)}, Percent(10))
          ELSE IF NothingToExtract(info.streams)
          THEN Return("FINISHED", {Report("INFO", "No additional tracks to extract", "", Len(info.streams))}, Percent(10))
          ELSE Goto("probe_duration", {Report("INFO", "Found audio tracks", "", Len(info.streams))}, Percent(10))


(***************************************************************************)
(* Phase 2: the duration probe and the frame rate probe.                   *)
(***************************************************************************)
\* what the duration probe may give: os.path.getsize or subprocess.run raises,
\* a nonzero exit, blank output, output that is no number, or a number
DurationRuns == {"ok", "nonzero", "blank", "not_a_number", "TimeoutExpired", "OSError"}

\* the tests of the duration probe with the exit code left out
DurationProbe_IgnoresExit(run) ==
    IF run = "blank" THEN "failed"
    ELSE IF run \in {"not_a_number", "TimeoutExpired", "OSError"} THEN "raised"
    ELSE "ok"

\* result.returncode != 0 or not result.stdout.strip(): failed; an exception
\* of getsize, subprocess.run or float: raised; else the duration is known
DurationProbe(run) ==
    IF run \in {"nonzero", "blank"} THEN "failed"
    ELSE IF run \in {"not_a_number", "TimeoutExpired", "OSError"} THEN "raised"
    ELSE "ok"

ProbeDuration ==
    /\ pc = "probe_duration"
    /\ UNCHANGED <<proc, timeline, scan_run, fps_run, locals>>
    /\ \E run \in DurationRuns :
       /\ duration_run' = run
       /\ IF DurationProbe(run) = "failed"
          THEN Return("CANCELLED", {Report("ERROR", "Failed to get duration from source file", "", 0)}, Percent(20))
          ELSE IF DurationProbe(run) = "raised"
          THEN Return("CANCELLED", {Report("ERROR", "Failed to analyze source file", run, 0)}, Percent(20))
          ELSE Goto("probe_fps", {}, Percent(20))

\* the rate strings the probe may print: "a/b", a decimal a/scale, or neither
FpsStrings ==
    { [form |-> "ratio", a |-> 24, b |-> 1],
      [form |-> "ratio", a |-> 0, b |-> 1],
      [form |-> "ratio", a |-> 0, b |-> 0],
      [form |-> "decimal", a |-> 2997, b |-> 100],
      [form |-> "other", a |-> 0, b |-> 1] }

NoFpsString == [form |-> "blank", a |-> 0, b |-> 1]

FpsRuns ==
    { [raised |-> "TimeoutExpired", returncode |-> 0, stdout |-> NoFpsString] }
    \cup { [raised |-> "", returncode |-> 1, stdout |-> NoFpsString] }
    \cup { [raised |-> "", returncode |-> 0, stdout |-> NoFpsString] }
    \cup { [raised |-> "", returncode |-> 0, stdout |-> str] : str \in FpsStrings }

\* the ratio read upside down
ParseFps_Inverted(str) ==
    IF str.form = "ratio"
    THEN IF str.a = 0
         THEN [raised |-> "ZeroDivisionError", value |-> <<0, 1>>]
         ELSE [raised |-> "", value |-> <<str.b, str.a>>]
    ELSE IF str.form = "decimal"
    THEN [raised |-> "", value |-> <<str.a, str.b>>]
    ELSE [raised |-> "ValueError", value |-> <<0, 1>>]

\* float(numerator) / float(denominator), or float(fps_string)
ParseFps(str) ==
    IF str.form = "ratio"
    THEN IF str.b = 0
         THEN [raised |-> "ZeroDivisionError", value |-> <<0, 1>>]
         ELSE [raised |-> "", value |-> <<str.a, str.b>>]
    ELSE IF str.form = "decimal"
    THEN [raised |-> "", value |-> <<str.a, str.b>>]
    ELSE [raised |-> "ValueError", value |-> <<0, 1>>]

\* fps_result.returncode == 0 and fps_result.stdout.strip()
FpsDetected(run) == run.returncode = 0 /\ run.stdout.form # "blank"

ProbeFps ==
    /\ pc = "probe_fps"
    /\ UNCHANGED <<proc, timeline, scan_run, duration_run, selected_strip, found_audio_info, original,
                   occupied_channels, extraction_start_channel, next_channel,
                   created_audio_strips, i, jobs, meta_strip>>
    /\ \E run \in FpsRuns :
       /\ fps_run' = run
       /\ IF run.raised # ""
          THEN /\ Return("CANCELLED", {Report("ERROR", "Failed to analyze source file", run.raised, 0)}, Percent(20))
               /\ UNCHANGED actual_video_fps
          ELSE IF FpsDetected(run)
          THEN LET parsed == ParseFps(run.stdout) IN
               IF parsed.raised # ""
               THEN /\ Return("CANCELLED", {Report("ERROR", "Failed to analyze source file", parsed.raised, 0)}, Percent(20))
                    /\ UNCHANGED actual_video_fps
               ELSE /\ actual_video_fps' = parsed.value
                    /\ Goto("snapshot", {}, Percent(30))
          ELSE /\ actual_video_fps' = project_fps
               /\ Goto("snapshot", {Report("WARNING", "Could not detect video FPS, using project FPS", "", 0)}, Percent(30))

(***************************************************************************)
(* Phase 3: the snapshot of the original strip and the workspace.          *)
(***************************************************************************)
\* original_strip_name .. original_frame_offset_end
SnapshotOf(s) ==
    [name |-> s.name, channel |-> s.channel, frame_start |-> s.frame_start,
     frame_final_start |-> frame_final_start(s),
     frame_final_end |-> frame_final_end(s),
     frame_final_duration |-> frame_final_duration(s),
     frame_offset_start |-> s.frame_offset_start,
     frame_offset_end |-> s.frame_offset_end]

\* [s.channel for s in seq_editor.strips_all]
OccupiedChannels(tl) == {tl[k].channel : k \in DOMAIN tl}

\* the highest occupied channel itself
ExtractionStartChannel_Max(occupied) ==
    IF occupied # {} THEN Max(occupied) ELSE 1

\* max_channel + 1, or 1 when no channel is occupied
ExtractionStartChannel(occupied) ==
    IF occupied # {} THEN Max(occupied) + 1 ELSE 1

NoCommand == [seek_us |-> 0, map |-> 0, limit_us |-> -1]

\* found_audio_streams[0:]: a job for the first stream too
AdditionalTracks_All(streams) ==
    [k \in 1..Len(streams) |->
        [stream_index |-> streams[k].index, status |-> "Pending",
         tool |-> "", file |-> "", start |-> <<0, 1>>, duration |-> <<0, 1>>,
         command |-> NoCommand, extracted |-> <<0, 1>>, clip |-> 0]]

\* found_audio_streams[1:], each a job that has not started
AdditionalTracks(streams) ==
    [k \in 1..(Len(streams) - 1) |->
        [stream_index |-> streams[k + 1].index, status |-> "Pending",
         tool |-> "", file |-> "", start |-> <<0, 1>>, duration |-> <<0, 1>>,
         command |-> NoCommand, extracted |-> <<0, 1>>, clip |-> 0]]

Snapshot ==
    /\ pc = "snapshot"
    /\ UNCHANGED <<proc, timeline, probes, selected_strip, found_audio_info,
                   actual_video_fps, created_audio_strips, meta_strip>>
    /\ original' = SnapshotOf(strips[selected_strip])
    /\ IF Len(found_audio_info.streams) > 1
       THEN /\ occupied_channels' = OccupiedChannels(strips)
            /\ extraction_start_channel' = ExtractionStartChannel(OccupiedChannels(strips))
            /\ next_channel' = ExtractionStartChannel(OccupiedChannels(strips))
            /\ jobs' = AdditionalTracks(found_audio_info.streams)
            /\ i' = 1
            /\ Goto("loop", {}, Percent(30))
       ELSE /\ UNCHANGED <<occupied_channels, extraction_start_channel,
                           next_channel, jobs, i>>
            /\ Return("FINISHED", {Report("INFO", "Only one audio track found", "", 0)}, Percent(100))

(***************************************************************************)
(* Phase 4: the extraction loop, one job per additional track.             *)
(***************************************************************************)
\* original_frame_final_duration / actual_video_fps
precise_duration_seconds(orig, fps) == FramesOverRate(orig.frame_final_duration, fps)

\* the start read one frame later for each strip created so far
strip_start_offset_seconds_AfterCreated(orig, fps) ==
    FramesOverRate(orig.frame_offset_start + Len(created_audio_strips), fps)

\* original_frame_offset_start / actual_video_fps
strip_start_offset_seconds(orig, fps) == FramesOverRate(orig.frame_offset_start, fps)

\* f"{seconds:.6f}": the seconds rounded to microseconds
Format6(r) ==
    LET whole == r[1] \div r[2]
        rem   == r[1] % r[2]
        milli == (rem * 1000) \div r[2]
        rem2  == (rem * 1000) % r[2]
        micro == (rem2 * 1000) \div r[2]
        rem3  == (rem2 * 1000) % r[2]
    IN  whole * 1000000 + milli * 1000 + micro + (IF 2 * rem3 >= r[2] THEN 1 ELSE 0)

\* the transcode invocation: -ss before -i, -map 0:<index>, no video, PCM,
\* 48 kHz; limit_us is the value of a -t option, -1 when there is none
ffmpeg_command(start, stream_index) ==
    [seek_us |-> Format6(start), map |-> stream_index, limit_us |-> -1]

\* seconds of audio the transcode tool writes for a command: from the seek
\* point to the end of the stream, cut to the -t option when there is one
TranscodeOutput(command, duration, source_frames, seek_frames, fps) ==
    LET rest == FramesOverRate(source_frames - seek_frames, fps) IN
    IF command.limit_us >= 0 /\ RatLess(duration, rest) THEN duration ELSE rest

\* frames a sound strip of the given seconds takes at the project rate
SoundFrames(seconds, rate) == (seconds[1] * rate[1]) \div (seconds[2] * rate[2])

\* what run_ffmpeg_with_progress may see: exit 0; the timeout; a nonzero exit
\* with diagnostic text left to read, or with none left; an exception
FfmpegRuns == {"ok", "timeout", "nonzero_text", "nonzero_no_text", "raised"}

\* the (stdout, stderr) pair run_ffmpeg_with_progress returns
run_ffmpeg_with_progress(run) ==
    IF run = "ok" THEN [stdout |-> "out", stderr |-> ""]
    ELSE IF run = "timeout" THEN [stdout |-> "", stderr |-> "Process timed out"]
    ELSE IF run = "nonzero_text" THEN [stdout |-> "", stderr |-> "diagnostic"]
    ELSE IF run = "nonzero_no_text" THEN [stdout |-> "", stderr |-> ""]
    ELSE [stdout |-> "", stderr |-> "exception"]

\* the normal end of an iteration
NextJob(rep) ==
    /\ i' = i + 1
    /\ Goto("loop", rep, progress.value)

\* break instead of continue: a failed job ends the loop
AfterFailedJob_Break(idx, n) == n + 1

\* continue: the index of the iteration after a failed job
AfterFailedJob(idx, n) == idx + 1

\* the continue statements of the loop
FailJob(rep) ==
    /\ i' = AfterFailedJob(i, Len(jobs))
    /\ Goto("loop", rep, progress.value)

\* 30 + (50 * (i + 1) / len(additional_tracks)), idx counting from 1
audio_progress(idx, n) == <<30 * n + 50 * idx, n>>

\* the loop body indented under the first iteration only
LoopOver_AfterFirst(idx, n) == idx > 1

\* for i, stream_info in enumerate(additional_tracks): the loop is exhausted
LoopOver(idx, n) == idx > n

\* the head of an iteration: the window and the command of job i
JobStart ==
    /\ pc = "loop"
    /\ i <= Len(jobs)
    /\ UNCHANGED <<proc, timeline, probes, selected_strip, found_audio_info, actual_video_fps,
                   original, occupied_channels, extraction_start_channel,
                   next_channel, created_audio_strips, meta_strip>>
    /\ IF actual_video_fps[1] = 0
       THEN /\ jobs' = [jobs EXCEPT ![i].status = "Failed", ![i].tool = "not_run"]
            /\ i' = AfterFailedJob(i, Len(jobs))
            /\ Goto("loop", {Report("WARNING", "Failed to import audio track", "ZeroDivisionError", jobs[i].stream_index)},
                    audio_progress(i, Len(jobs)))
       ELSE LET start == strip_start_offset_seconds(original, actual_video_fps)
                duration == precise_duration_seconds(original, actual_video_fps)
            IN  /\ jobs' = [jobs EXCEPT ![i].status = "Running",
                                        ![i].start = start,
                                        ![i].duration = duration,
                                        ![i].command = ffmpeg_command(start, jobs[i].stream_index)]
                /\ UNCHANGED i
                /\ Goto("ffmpeg", {}, audio_progress(i, Len(jobs)))

\* if stderr: the job failed
ExtractionFailed(result) == result.stderr # ""

\* the return of run_ffmpeg_with_progress with outcome run, and the test of
\* what it returned
Finish(run) ==
    LET result == run_ffmpeg_with_progress(run) IN
    /\ proc' = NoProcess
    /\ IF ExtractionFailed(result)
       THEN /\ jobs' = [jobs EXCEPT ![i].status = "Failed", ![i].tool = run]
            /\ FailJob({Report("WARNING", "Failed to extract audio track", result.stderr, jobs[i].stream_index)})
       ELSE /\ jobs' = [jobs EXCEPT ![i].tool = run]
            /\ UNCHANGED i
            /\ Goto("verify", {}, progress.value)

\* the call of run_ffmpeg_with_progress for job i: subprocess.Popen starts the
\* process, or raises
RunFfmpeg ==
    /\ pc = "ffmpeg"
    /\ UNCHANGED <<timeline, probes, selected_strip, found_audio_info, actual_video_fps,
                   original, occupied_channels, extraction_start_channel,
                   next_channel, created_audio_strips, meta_strip>>
    /\ \E started \in BOOLEAN :
       IF started
       THEN /\ proc' = [state |-> "running", elapsed |-> 0, last_progress |-> <<0, 1>>]
            /\ UNCHANGED <<jobs, i>>
            /\ Goto("monitor", {}, progress.value)
       ELSE Finish("raised")

RECURSIVE GCD(_, _)
GCD(a, b) == IF b = 0 THEN a ELSE GCD(b, a % b)

\* a rational in lowest terms
Reduce(r) == LET g == GCD(r[1], r[2]) IN IF g = 0 THEN r ELSE <<r[1] \div g, r[2] \div g>>

\* the lines the process may write to stderr: one without a time= field, or
\* one with the time it has reached, in seconds (before and past the end of
\* the window)
ProgressTimes == {<<16, 1>>, <<50, 1>>}
Lines == {[time |-> FALSE, seconds |-> <<0, 1>>]}
         \cup {[time |-> TRUE, seconds |-> t] : t \in ProgressTimes}
EndOfFile == [time |-> FALSE, seconds |-> <<0, 1>>]

\* min(current_time / duration_seconds, 1.0)
ParsedProgress(seconds, duration) ==
    LET ratio == Reduce(<<seconds[1] * duration[2], seconds[2] * duration[1]>>) IN
    IF RatLess(<<1, 1>>, ratio) THEN <<1, 1>> ELSE ratio

\* progress - last_progress > 0.01
ProgressIncreased(value, last) ==
    (value[1] * last[2] - last[1] * value[2]) * 100 > value[2] * last[2]

\* the rest of an iteration after readline returned line: the progress update
\* and time.sleep(0.1), after which elapsed polls have passed
AfterLine(line, elapsed) ==
    LET duration == jobs[i].duration
        value == ParsedProgress(line.seconds, duration)
        update == /\ line.time
                  /\ duration[1] # 0
                  /\ ProgressIncreased(value, proc.last_progress)
    IN  /\ proc' = [state |-> "running", elapsed |-> elapsed,
                    last_progress |-> IF update THEN value ELSE proc.last_progress]
        /\ UNCHANGED <<jobs, i>>
        /\ Goto("monitor", {}, IF update THEN value ELSE progress.value)

\* what the process has done when the loop polls it: it has exited (with one
\* of the outcomes of FfmpegRuns), it has written a line, or it is alive and
\* has written nothing
Exits == FfmpegRuns \ {"timeout", "raised"}
ProcessSteps == Exits \cup {"line", "silent"}

\* time.time() - start_time > timeout, in polls of the loop
TimedOut(elapsed) == elapsed >= TimeoutPolls

\* one iteration of the monitoring loop: process.poll(), the timeout check,
\* process.stderr.readline(), which blocks while the process is alive and
\* writes nothing
Monitor ==
    /\ pc = "monitor"
    /\ proc.state = "running"
    /\ UNCHANGED <<timeline, probes, selected_strip, found_audio_info, actual_video_fps,
                   original, occupied_channels, extraction_start_channel,
                   next_channel, created_audio_strips, meta_strip>>
    /\ \E step \in ProcessSteps :
       IF step \in Exits
       THEN Finish(step)
       ELSE IF TimedOut(proc.elapsed)
       THEN Finish("timeout")
       ELSE IF step = "silent"
       THEN /\ proc' = [proc EXCEPT !.state = "blocked"]
            /\ UNCHANGED <<jobs, i, pc, status, reports, progress>>
       ELSE \E line \in Lines : AfterLine(line, proc.elapsed + 1)

\* the blocked readline returns: the process wrote a line, or closed its
\* stderr; any time may have passed meanwhile
ReadLine ==
    /\ pc = "monitor"
    /\ proc.state = "blocked"
    /\ UNCHANGED <<timeline, probes, selected_strip, found_audio_info, actual_video_fps,
                   original, occupied_channels, extraction_start_channel,
                   next_channel, created_audio_strips, meta_strip>>
    /\ \E line \in Lines \cup {EndOfFile}, elapsed \in (proc.elapsed + 1)..TimeoutPolls :
       AfterLine(line, elapsed)

\* what the checks may find: whether the output file exists, whether it is
\* under 10 KB, and whether the probe of its duration answered
OutputFiles ==
    { [exists |-> FALSE, small |-> FALSE, verify |-> "ok"],
      [exists |-> TRUE, small |-> FALSE, verify |-> "ok"],
      [exists |-> TRUE, small |-> TRUE, verify |-> "unverified"] }

\* the output files tried after a run of the transcode tool: all of them
\* after exit 0; after a nonzero exit that passed for a success, the file of
\* normal size that makes the exit code matter
OutputFilesAfter(tool) ==
    IF tool = "ok" THEN OutputFiles
    ELSE {f \in OutputFiles : f.exists /\ ~f.small}

\* the checks of the output file of job i
VerifyOutput ==
    /\ pc = "verify"
    /\ UNCHANGED <<proc, timeline, probes, selected_strip, found_audio_info, actual_video_fps,
                   original, occupied_channels, extraction_start_channel,
                   next_channel, created_audio_strips, meta_strip>>
    /\ \E file \in OutputFilesAfter(jobs[i].tool) :
       LET exists == file.exists
           small  == file.small
           verify == file.verify
       IN
       IF ~exists
       THEN /\ jobs' = [jobs EXCEPT ![i].status = "Failed"]
            /\ FailJob({Report("WARNING", "Extracted audio file not found", "", jobs[i].stream_index)})
       ELSE /\ jobs' = [jobs EXCEPT ![i].status = "Verified",
                                    ![i].file = IF small THEN "small" ELSE "normal",
                                    ![i].extracted =
                                        TranscodeOutput(jobs[i].command, jobs[i].duration,
                                                        strips[selected_strip].length,
                                                        original.frame_offset_start,
                                                        actual_video_fps)]
            /\ UNCHANGED i
            /\ Goto("place",
                    (IF verify = "ok" THEN {}
                     ELSE {Report("WARNING", "Could not verify extracted file duration", "", 0)})
                    \cup (IF small
                          THEN {Report("WARNING", "extracted file is very small", "", jobs[i].stream_index)}
                          ELSE {}),
                    progress.value)

\* f"Audio_{stream_title}", the title defaulting to f"Track_{stream_index}"
audio_strip_name(stream_index) ==
    [prefix |-> "Audio_", title |-> "Track_", index |-> stream_index]

\* the strip seq_editor.strips.new_sound creates
new_sound(name, channel, frame_start, frames) ==
    [name |-> name, type |-> "SOUND", channel |-> channel,
     frame_start |-> frame_start, frame_offset_start |-> 0,
     frame_offset_end |-> 0, length |-> frames, select |-> FALSE, parent |-> 0]

NewId == Cardinality(DOMAIN strips) + 1

\* what new_sound may do: return the strip, return None, or raise (the last
\* two are tried on output files of normal size written by a run that exited 0)
NewSoundResults(file, tool) ==
    IF file = "small" \/ tool # "ok" THEN {"strip"} ELSE {"strip", "none", "raised"}

\* the import of job i's output as a new sound strip
PlaceStrip ==
    /\ pc = "place"
    /\ UNCHANGED <<proc, probes, sequence_editor, active_strip, strips0, project_fps, composite,
                   selected_strip, found_audio_info, actual_video_fps, original,
                   occupied_channels, extraction_start_channel, meta_strip>>
    /\ \E made \in NewSoundResults(jobs[i].file, jobs[i].tool) :
       IF made = "strip"
       THEN /\ strips' = strips @@
                   (NewId :> new_sound(audio_strip_name(jobs[i].stream_index),
                                       next_channel, temp_extraction_start,
                                       SoundFrames(jobs[i].extracted, project_fps)))
            /\ created_audio_strips' = Append(created_audio_strips, NewId)
            /\ next_channel' = next_channel + 1
            /\ jobs' = [jobs EXCEPT ![i].clip = NewId]
            /\ NextJob({})
       ELSE IF made = "none"
       THEN /\ UNCHANGED <<strips, created_audio_strips, next_channel, jobs>>
            /\ NextJob({Report("WARNING", "Failed to create audio strip", "", jobs[i].stream_index)})
       ELSE /\ UNCHANGED <<strips, created_audio_strips, next_channel, jobs>>
            /\ FailJob({Report("WARNING", "Failed to import audio track", "", jobs[i].stream_index)})

(***************************************************************************)
(* Phase 5: the metastrip; phase 6: the restoration.                       *)
(***************************************************************************)
\* the guard taken for true
HasCreated_Always(created) == TRUE

\* if created_audio_strips
HasCreated(created) == created # <<>>

\* the end of the loop, and the move of the original strip to the temporary area
MoveOriginal ==
    /\ pc = "loop"
    /\ LoopOver(i, Len(jobs))
    /\ UNCHANGED <<proc, probes, sequence_editor, active_strip, strips0, project_fps, composite, locals>>
    /\ IF HasCreated(created_audio_strips)
       THEN /\ strips' = [strips EXCEPT
                             ![selected_strip].frame_start = temp_extraction_start,
                             ![selected_strip].channel = extraction_start_channel - 1]
            /\ Goto("select", {}, Percent(90))
       ELSE /\ UNCHANGED strips
            /\ Return("FINISHED", {Report("WARNING", "No additional audio tracks were successfully extracted", "", 0)}, Percent(100))

\* select_all(action='DESELECT'), then the original and the created strips
SelectStrips ==
    /\ pc = "select"
    /\ UNCHANGED <<proc, probes, sequence_editor, active_strip, strips0, project_fps, composite, locals>>
    /\ strips' = [k \in DOMAIN strips |->
                    [strips[k] EXCEPT !.select =
                        IF k = selected_strip \/ k \in Range(created_audio_strips)
                        THEN TRUE
                        ELSE IF strips[k].parent = 0 THEN FALSE ELSE @]]
    /\ Goto("meta_make", {}, Percent(90))

\* the strips meta_make groups: the selected strips of the top level
Selected == {k \in DOMAIN strips : strips[k].select /\ strips[k].parent = 0}

\* frames by which the length of a new metastrip may differ from the span of
\* its children
Drifts == {-1, 2}

\* the metastrip the host makes of the strips in sel
MetaOf(sel, drift) ==
    LET first == Min({frame_final_start(strips[k]) : k \in sel})
        last  == Max({frame_final_end(strips[k]) : k \in sel})
    IN  [name |-> [prefix |-> "", title |-> "MetaStrip", index |-> 0],
         type |-> "META", channel |-> Min({strips[k].channel : k \in sel}),
         frame_start |-> first, frame_offset_start |-> 0, frame_offset_end |-> 0,
         length |-> (last - first) + drift, select |-> TRUE, parent |-> 0]

\* bpy.ops.sequencer.meta_make(): it makes the metastrip and activates it, or
\* makes nothing, or raises
MetaMake ==
    /\ pc = "meta_make"
    /\ UNCHANGED <<proc, probes, sequence_editor, strips0, project_fps, locals>>
    /\ \E made \in {"meta", "nothing", "raised"}, drift \in Drifts :
       IF made = "meta"
       THEN /\ strips' = [k \in DOMAIN strips |->
                            IF k \in Selected
                            THEN [strips[k] EXCEPT !.parent = NewId]
                            ELSE strips[k]]
                         @@ (NewId :> MetaOf(Selected, drift))
            /\ active_strip' = NewId
            /\ composite' = NewId
            /\ Goto("restore", {}, Percent(90))
       ELSE IF made = "nothing"
       THEN /\ UNCHANGED <<strips, active_strip, composite>>
            /\ Goto("restore", {}, Percent(90))
       ELSE /\ UNCHANGED <<strips, active_strip, composite>>
            /\ Return("CANCELLED", {Report("ERROR", "Failed to extract additional audio tracks", "", 0)}, Percent(90))

\* seq_editor.active_strip and seq_editor.active_strip.type == 'META'
IsMeta(active) == active # 0 /\ strips[active].type = "META"

\* f"MultiAudio_{original_strip_name}"
meta_strip_name(name) == [name EXCEPT !.prefix = "MultiAudio_"]

\* the restoration without the duration check
RestoredOffsetEnd_NoCorrection(current_duration, target_duration, offset_end) ==
    offset_end

\* frame_offset_end after the duration check: moved by the signed difference
\* when the duration is off by more than the tolerance
RestoredOffsetEnd(current_duration, target_duration, offset_end) ==
    IF Abs(current_duration - target_duration) > DurationTolerance
    THEN offset_end + (current_duration - target_duration)
    ELSE offset_end

\* the restoration leaving the start trim of the metastrip as it is
Restored_NoOffsetStart(m, orig) ==
    LET placed == [m EXCEPT !.name = meta_strip_name(orig.name),
                            !.frame_start = orig.frame_start,
                            !.channel = orig.channel,
                            !.frame_offset_end = orig.frame_offset_end]
    IN  [placed EXCEPT !.frame_offset_end =
            RestoredOffsetEnd(frame_final_duration(placed),
                              orig.frame_final_duration, orig.frame_offset_end)]

\* the active strip after the restoration of the original position and trim
Restored(m, orig) ==
    LET placed == [m EXCEPT !.name = meta_strip_name(orig.name),
                            !.frame_start = orig.frame_start,
                            !.channel = orig.channel,
                            !.frame_offset_start = orig.frame_offset_start,
                            !.frame_offset_end = orig.frame_offset_end]
    IN  [placed EXCEPT !.frame_offset_end =
            RestoredOffsetEnd(frame_final_duration(placed),
                              orig.frame_final_duration, orig.frame_offset_end)]

\* the test of the active strip, the restoration, and the normal return
Restore ==
    /\ pc = "restore"
    /\ UNCHANGED <<proc, probes, sequence_editor, active_strip, strips0, project_fps, composite,
                   selected_strip, found_audio_info, actual_video_fps, original,
                   occupied_channels, extraction_start_channel, next_channel,
                   created_audio_strips, i, jobs>>
    /\ IF IsMeta(active_strip)
       THEN /\ meta_strip' = active_strip
            /\ strips' = [strips EXCEPT ![active_strip] = Restored(@, original)]
            /\ Return("FINISHED", {Report("INFO", "Successfully created metastrip", "", Len(created_audio_strips) + 1)}, Percent(100))
       ELSE /\ UNCHANGED <<strips, meta_strip>>
            /\ Return("FINISHED", {Report("WARNING", "Metastrip creation may have failed", "", 0)}, Percent(100))

Next ==
    \/ PreChecks
    \/ Scan
    \/ ProbeDuration
    \/ ProbeFps
    \/ Snapshot
    \/ JobStart
    \/ RunFfmpeg
    \/ Monitor
    \/ ReadLine
    \/ VerifyOutput
    \/ PlaceStrip
    \/ MoveOriginal
    \/ SelectStrips
    \/ MetaMake
    \/ Restore

Spec == Init /\ [][Next]_vars

\* the steps execute takes by itself; ReadLine is the step the monitored
\* process decides: the blocked readline returns only when the process writes
\* a line or closes its stderr
ProgramNext ==
    \/ PreChecks
    \/ Scan
    \/ ProbeDuration
    \/ ProbeFps
    \/ Snapshot
    \/ JobStart
    \/ RunFfmpeg
    \/ Monitor
    \/ VerifyOutput
    \/ PlaceStrip
    \/ MoveOriginal
    \/ SelectStrips
    \/ MetaMake
    \/ Restore

\* execute runs on the host's main control flow and never pauses by itself
FairSpec == Spec /\ WF_vars(ProgramNext)

(***************************************************************************)
(* The claims.                                                             *)
(***************************************************************************)
\* name, channel, frame start and trim offsets of a strip
Placement(s) ==
    <<s.name, s.channel, s.frame_start, s.frame_offset_start, s.frame_offset_end>>

\* the strips grouped in metastrip m
Children(m) == {k \in DOMAIN strips : strips[k].parent = m}

\* a warning names the stream of job j
Warned(j) ==
    \E r \in reports : r.level = "WARNING" /\ r.arg = j.stream_index

\* the scan failed: an exception, a nonzero exit, blank or malformed output
ScanRunFailed(run) ==
    /\ run.stdout # "not_run"
    /\ \/ run.raised # ""
       \/ run.returncode # 0
       \/ run.stdout \in {"blank", "malformed"}

\* the rate the run resolved: the one the probe printed, else the project's
ResolvedRate ==
    IF FpsDetected(fps_run) THEN <<fps_run.stdout.a, fps_run.stdout.b>>
    ELSE project_fps

\* job k got as far as computing its window
Started(k) ==
    /\ jobs[k].status # "Pending"
    /\ jobs[k].tool # "not_run"

\* C1: at the end of every run, every strip that was on the timeline before
\* the run, other than the selected original strip, has the name, channel,
\* frame start and trim offsets it had before the run.
C1_OtherClipsUntouched ==
    pc = "done" =>
        \A k \in DOMAIN strips0 :
            k # selected_strip => Placement(strips[k]) = Placement(strips0[k])

\* C2: after a run in which grouping yielded a composite, the composite's
\* frame start and channel are those the original strip had before the run,
\* and its final duration is within one frame of the original's.
C2_CompositeRestored ==
    (pc = "done" /\ composite # 0) =>
        LET m == strips[composite]
            o == strips0[selected_strip]
        IN  /\ \E k \in DOMAIN jobs : jobs[k].status = "Verified"
            /\ m.frame_start = o.frame_start
            /\ m.channel = o.channel
            /\ Abs(frame_final_duration(m) - frame_final_duration(o)) <= 1

\* a run ended with a composite whose end trim had to be moved
C2_Witness ==
    /\ pc = "done"
    /\ composite # 0
    /\ strips[composite].frame_offset_end # strips0[selected_strip].frame_offset_end

\* C3: when the scan returns 0 or 1 streams the run changes nothing on the
\* timeline, starts no job and returns FINISHED.
C3_NothingToExtract ==
    (/\ pc = "done"
     /\ scan_run.stdout = "json" /\ scan_run.returncode = 0 /\ scan_run.raised = ""
     /\ Len(scan_run.streams) <= 1) =>
        /\ strips = strips0
        /\ composite = 0
        /\ jobs = <<>>
        /\ created_audio_strips = <<>>
        /\ status = "FINISHED"

\* a run ended after a scan that found exactly one stream
C3_Witness ==
    /\ pc = "done"
    /\ scan_run.stdout = "json" /\ scan_run.returncode = 0 /\ scan_run.raised = ""
    /\ Len(scan_run.streams) = 1

\* C4: when every job ended Failed, the original strip is at the end of the
\* run exactly as it was before it: placement, trim, selection and grouping.
\* A job is Failed when the loop gave it up with a warning and `continue`
\* (transcode error text, timeout, exception, or output file missing).
C4_AllFailedUntouched ==
    (/\ pc = "done"
     /\ jobs # <<>>
     /\ \A k \in DOMAIN jobs : jobs[k].status = "Failed") =>
        /\ strips[selected_strip] = strips0[selected_strip]
        /\ composite = 0

\* a run ended with one job timed out and another with its output missing
C4_Witness ==
    /\ pc = "done"
    /\ Len(jobs) >= 2
    /\ \A k \in DOMAIN jobs : jobs[k].status = "Failed"
    /\ jobs[1].tool = "timeout"
    /\ jobs[2].tool = "ok"

\* C5: when the scan fails, the run returns CANCELLED with an error report
\* that carries the scan's detail, starts no job and changes nothing on the
\* timeline.
C5_ScanFailureAborts ==
    (pc = "done" /\ ScanRunFailed(scan_run)) =>
        /\ status = "CANCELLED"
        /\ \E r \in reports :
              /\ r.level = "ERROR"
              /\ r.text = "Failed to scan audio tracks"
              /\ r.detail # ""
              /\ r.detail = found_audio_info.detail
        /\ jobs = <<>>
        /\ created_audio_strips = <<>>
        /\ strips = strips0
        /\ composite = 0

\* a run ended after the probe exited 0 with output that is no JSON
C5_Witness ==
    /\ pc = "done"
    /\ scan_run.raised = "" /\ scan_run.returncode = 0
    /\ scan_run.stdout = "malformed"

C7_WindowSeconds ==
    \A k \in DOMAIN jobs :
        (Started(k) /\ ResolvedRate[1] > 0 /\ ResolvedRate[2] > 0) =>
            LET o == strips0[selected_strip]
                R == ResolvedRate
                start == jobs[k].start
                duration == jobs[k].duration
            IN  /\ start[2] > 0 /\ duration[2] > 0
                /\ start[1] * R[1] = o.frame_offset_start * R[2] * start[2]
                /\ duration[1] * R[1] = frame_final_duration(o) * R[2] * duration[2]
                /\ (o.frame_offset_start = 48 /\ frame_final_duration(o) = 960
                    /\ R = <<24, 1>>) =>
                       (RatEq(start, <<2, 1>>) /\ RatEq(duration, <<40, 1>>))
                /\ \A c \in 1..3 :
                      LET faster == <<c * R[1], R[2]>>
                          s2 == strip_start_offset_seconds(original, faster)
                          d2 == precise_duration_seconds(original, faster)
                      IN  /\ RatEq(<<c * s2[1], s2[2]>>, start)
                          /\ RatEq(<<c * d2[1], d2[2]>>, duration)

\* a job ran with the window of 48 and 960 frames at the probed rate 24/1
C7_Witness ==
    \E k \in DOMAIN jobs :
        /\ jobs[k].status = "Verified"
        /\ fps_run.stdout = [form |-> "ratio", a |-> 24, b |-> 1]
        /\ strips0[selected_strip].frame_offset_start = 48
        /\ frame_final_duration(strips0[selected_strip]) = 960
        /\ RatEq(jobs[k].start, <<2, 1>>)
        /\ RatEq(jobs[k].duration, <<40, 1>>)

\* C8: the command of every job seeks to startSeconds and is limited to
\* durationSeconds, and the output of a Verified job is no longer than
\* durationSeconds.
C8_BoundedToWindow ==
    \A k \in DOMAIN jobs :
        Started(k) =>
            /\ jobs[k].command.seek_us = Format6(jobs[k].start)
            /\ jobs[k].command.limit_us = Format6(jobs[k].duration)
            /\ jobs[k].status = "Verified" =>
                  ~RatLess(jobs[k].duration, jobs[k].extracted)

\* C9: once computed, extraction_start_channel is one more than the highest
\* channel of the strips that were on the timeline, hence above each of them;
\* the allocator gives 1 for an empty set of channels.
C9_ChannelStartAboveOccupied ==
    /\ extraction_start_channel # 0 =>
          /\ \A k \in DOMAIN strips0 : extraction_start_channel > strips0[k].channel
          /\ \E k \in DOMAIN strips0 : extraction_start_channel = strips0[k].channel + 1
    /\ ExtractionStartChannel({}) = 1

\* the workspace was allocated on a timeline of two strips on two channels
C9_Witness ==
    /\ extraction_start_channel > 2
    /\ Len(strips0) = 2
    /\ strips0[1].channel < strips0[2].channel

\* C10: at every moment, neither the original strip nor a created strip
\* shares a channel and overlapping frames with another strip that was on the
\* timeline before the run.
C10_WorkspaceNeverOverlaps ==
    selected_strip # 0 =>
        \A w \in Range(created_audio_strips) \cup {selected_strip} :
            \A t \in DOMAIN strips0 \ {selected_strip} :
                ~Overlap(strips[w], strips[t])

\* an error-level message was reported
ErrorReported == \E r \in reports : r.level = "ERROR"

\* new_sound returned no handle for some job
NoHandle == \E r \in reports : r.text = "Failed to create audio strip"

\* the grouping primitive was invoked and made no composite
GroupingFailed ==
    /\ pc \in {"restore", "done"}
    /\ HasCreated(created_audio_strips)
    /\ composite = 0

\* C11: a run that found two or more streams and ended with no job Verified
\* returned CANCELLED with an error-level message.
C11_NoneVerifiedIsFailure ==
    (/\ pc = "done"
     /\ Len(found_audio_info.streams) >= 2
     /\ \A k \in DOMAIN jobs : jobs[k].status # "Verified") =>
        /\ status = "CANCELLED"
        /\ ErrorReported

\* C12: a run in which the grouping primitive made no composite, or new_sound
\* returned no handle, returned CANCELLED with an error-level message.
C12_GroupingFailureIsFatal ==
    (pc = "done" /\ (GroupingFailed \/ NoHandle)) =>
        /\ status = "CANCELLED"
        /\ ErrorReported

\* the duration probe failed: nonzero exit, blank output, or an exception
DurationRunFailed == duration_run \notin {NoDurationRun, "ok"}

\* C13: once the duration probe has failed the run is over: it returned
\* CANCELLED with an error-level message, no job exists, no strip was created
\* and the timeline is as it was before the run.
C13_TimingFailureAborts ==
    DurationRunFailed =>
        /\ pc = "done"
        /\ status = "CANCELLED"
        /\ ErrorReported
        /\ jobs = <<>>
        /\ created_audio_strips = <<>>
        /\ strips = strips0
        /\ composite = 0

\* a run ended after the duration probe exited nonzero
C13_Witness ==
    /\ pc = "done"
    /\ duration_run = "nonzero"
    /\ strips0[selected_strip].frame_offset_start = 48

\* the rate probe ran and gave no positive rate: it raised, exited nonzero,
\* printed nothing, or printed a string that is no positive rate
RateProbeFailed ==
    /\ fps_run.stdout.form # "not_run"
    /\ \/ fps_run.raised # ""
       \/ ~FpsDetected(fps_run)
       \/ fps_run.stdout.form = "other"
       \/ fps_run.stdout.a <= 0
       \/ fps_run.stdout.b <= 0

\* C14: once the rate probe has failed, the rate in use is the project's, the
\* fallback warning was reported, and no error about the probe was reported.
C14_RateProbeFailureFallsBack ==
    RateProbeFailed =>
        /\ actual_video_fps = project_fps
        /\ \E r \in reports :
              r.level = "WARNING" /\ r.text = "Could not detect video FPS, using project FPS"
        /\ ~\E r \in reports : r.text = "Failed to analyze source file"

\* C15 as stated: at the end of a run that made a composite, its frame start,
\* channel and start trim are the snapshot's and its end trim is within one
\* frame of the snapshot's.
C15_OffsetsRestored ==
    (pc = "done" /\ composite # 0) =>
        LET m == strips[composite]
            o == strips0[selected_strip]
        IN  /\ m.frame_start = o.frame_start
            /\ m.channel = o.channel
            /\ m.frame_offset_start = o.frame_offset_start
            /\ Abs(m.frame_offset_end - o.frame_offset_end) <= DurationTolerance

\* C15 as amended: frame start, channel and start trim are the snapshot's;
\* the end trim is the snapshot's when the composite's duration under the
\* snapshot's trims is within one frame of the snapshot's duration, else it is
\* the snapshot's plus the signed difference, and the duration is then exact.
C15_OffsetsRestoredOrCorrected ==
    (pc = "done" /\ composite # 0) =>
        LET m == strips[composite]
            o == strips0[selected_strip]
            grouped == m.length - o.frame_offset_start - o.frame_offset_end
            target == frame_final_duration(o)
        IN  /\ m.frame_start = o.frame_start
            /\ m.channel = o.channel
            /\ m.frame_offset_start = o.frame_offset_start
            /\ IF Abs(grouped - target) <= DurationTolerance
               THEN m.frame_offset_end = o.frame_offset_end
               ELSE /\ m.frame_offset_end = o.frame_offset_end + (grouped - target)
                    /\ frame_final_duration(m) = target

\* a run ended with a composite of a strip trimmed at both ends, the end trim
\* of the composite moved
C15_Witness ==
    /\ pc = "done"
    /\ composite # 0
    /\ strips0[selected_strip].frame_offset_start = 48
    /\ strips0[selected_strip].frame_offset_end = 12
    /\ strips[composite].frame_offset_start = 48
    /\ strips[composite].frame_offset_end # 12

\* C16: every job that was started eventually is Verified or Failed, and the
\* run eventually returns, whatever the transcode process does.
C16_TimeoutEnforced ==
    /\ \A k \in 1..(MaxStreams - 1) :
          (k \in DOMAIN jobs /\ jobs[k].status = "Running")
              ~> (k \in DOMAIN jobs /\ jobs[k].status \in {"Verified", "Failed"})
    /\ <>(pc = "done")

\* the iteration of job k is over
JobOver(k) == k \in DOMAIN jobs /\ i > k

\* the transcode process of job k exited with a nonzero code
ExitedNonzero(k) == jobs[k].tool \in {"nonzero_text", "nonzero_no_text"}

\* C17: a job whose transcode process exited nonzero, with diagnostic text
\* left to read or with none, is Failed once its iteration is over, and no
\* strip was created for it.
C17_NonzeroExitFails ==
    \A k \in DOMAIN jobs :
        (JobOver(k) /\ ExitedNonzero(k)) =>
            /\ jobs[k].status = "Failed"
            /\ jobs[k].clip = 0

\* C18: a job is Verified, or has a strip, only if its transcode succeeded
\* and its output file was found; a job whose output was missing is Failed
\* without a strip; a job whose output was small is Verified with a warning
\* and gets its strip.
C18_VerifiedOnlyAfterChecks ==
    \A k \in DOMAIN jobs :
        /\ (jobs[k].status = "Verified" \/ jobs[k].clip # 0) =>
              /\ jobs[k].tool = "ok"
              /\ jobs[k].file \in {"normal", "small"}
        /\ (JobOver(k) /\ jobs[k].tool = "ok" /\ jobs[k].file = "") =>
              /\ jobs[k].status = "Failed"
              /\ jobs[k].clip = 0
        /\ jobs[k].file = "small" =>
              /\ jobs[k].status = "Verified"
              /\ \E r \in reports :
                    /\ r.level = "WARNING"
                    /\ r.text = "extracted file is very small"
                    /\ r.arg = jobs[k].stream_index
              /\ JobOver(k) => jobs[k].clip # 0

\* every job has reached Verified or Failed
AllJobsOver == \A k \in DOMAIN jobs : jobs[k].status \in {"Verified", "Failed"}

\* the original strip stands in the workspace, or is grouped already
OriginalInWorkspace ==
    \/ strips[selected_strip].parent # 0
    \/ /\ strips[selected_strip].frame_start = temp_extraction_start
       /\ strips[selected_strip].channel = extraction_start_channel - 1

\* C19 as stated: the timeline is as before the run until every job is
\* Verified or Failed, and whenever a created strip exists the original strip
\* has been moved into the workspace already.
C19_PhasesInOrder ==
    /\ strips # strips0 => AllJobsOver
    /\ created_audio_strips # <<>> => OriginalInWorkspace

\* C19 as amended, step by step: a strip is created for job k only in the
\* iteration of job k, once job k is Verified, with the jobs before it over,
\* the jobs after it not started and the original strip untouched; the
\* original strip is moved only when every job is over, and no strip is
\* created after that; a composite is made only with the original strip in
\* the workspace; the restoration follows the grouping step.
C19_PlacingInsideLoop ==
    [][/\ \A k \in DOMAIN jobs :
             (jobs[k].clip = 0 /\ jobs'[k].clip # 0) =>
                 /\ k = i
                 /\ jobs[k].status = "Verified"
                 /\ \A l \in DOMAIN jobs : l < k => jobs[l].status \in {"Verified", "Failed"}
                 /\ \A l \in DOMAIN jobs : l > k => jobs[l].status = "Pending"
                 /\ strips[selected_strip] = strips0[selected_strip]
       /\ (selected_strip # 0 /\ strips'[selected_strip] # strips[selected_strip]) =>
             /\ AllJobsOver
             /\ created_audio_strips' = created_audio_strips
             /\ created_audio_strips # <<>>
       /\ composite' # composite =>
             /\ strips[selected_strip].frame_start = temp_extraction_start
             /\ strips[selected_strip].channel = extraction_start_channel - 1
       /\ meta_strip' # meta_strip => pc = "restore"
      ]_vars

\* a run ended with a composite of two created strips
C19_Witness ==
    /\ pc = "done"
    /\ composite # 0
    /\ Len(created_audio_strips) = 2
    /\ meta_strip = composite

\* C20, step by step: at most one job is Running; a job starts only from
\* Pending, with every job before it over and every job after it Pending; a
\* job that is Verified or Failed stays so; the jobs are the streams 2..N in
\* scan order; and a run that returns after the loop has run all N - 1 jobs.
C20_Sequential ==
    [][/\ Cardinality({k \in DOMAIN jobs' : jobs'[k].status = "Running"}) <= 1
       /\ \A k \in DOMAIN jobs :
             /\ (jobs[k].status # "Running" /\ jobs'[k].status = "Running") =>
                   /\ jobs[k].status = "Pending"
                   /\ \A l \in DOMAIN jobs : l < k => jobs[l].status \in {"Verified", "Failed"}
                   /\ \A l \in DOMAIN jobs : l > k => jobs[l].status = "Pending"
             /\ jobs[k].status \in {"Verified", "Failed"} =>
                   jobs'[k].status = jobs[k].status
       /\ jobs' # <<>> =>
             /\ Len(found_audio_info'.streams) >= 2
             /\ Len(jobs') = Len(found_audio_info'.streams) - 1
             /\ \A k \in DOMAIN jobs' :
                   jobs'[k].stream_index = found_audio_info'.streams[k + 1].index
       /\ (pc' = "done" /\ jobs' # <<>>) =>
             \A k \in DOMAIN jobs' : jobs'[k].status \in {"Verified", "Failed"}
      ]_vars

\* a run of three streams ended with its first job Failed and its second
\* job Verified
C20_Witness ==
    /\ pc = "done"
    /\ Len(found_audio_info.streams) = 3
    /\ Len(jobs) = 2
    /\ jobs[1].status = "Failed" /\ jobs[1].tool = "timeout"
    /\ jobs[2].status = "Verified"

\* C21: every job that computed its window has the start and the duration
\* given by the trim of the original strip as it was before the run and the
\* resolved rate, so all jobs of a run have the same window, whatever strips
\* were created for the jobs before and wherever the original strip is now.
C21_WindowFromSnapshot ==
    LET o == strips0[selected_strip]
        start == FramesOverRate(o.frame_offset_start, ResolvedRate)
        duration == FramesOverRate(frame_final_duration(o), ResolvedRate)
    IN  \A k \in DOMAIN jobs :
            Started(k) =>
                /\ jobs[k].start = start
                /\ jobs[k].duration = duration
                /\ \A l \in DOMAIN jobs :
                      Started(l) =>
                          /\ jobs[l].start = jobs[k].start
                          /\ jobs[l].duration = jobs[k].duration

\* the second job computed its window after a strip was created for the
\* first, the original strip being trimmed at both ends
C21_Witness ==
    /\ Len(jobs) = 2
    /\ jobs[1].clip # 0
    /\ Started(2)
    /\ strips0[selected_strip].frame_offset_start = 48
    /\ strips0[selected_strip].frame_offset_end = 12
    /\ strips # strips0

\* the jobs up to job k that are Verified
VerifiedUpTo(k) == {l \in 1..k : jobs[l].status = "Verified"}

\* C22: the strip created for a job stands at the workspace frame start on
\* channel extraction_start_channel + n - 1, the job being the n-th Verified
\* job in job order; no two created strips share a channel.
C22_ClipsOnConsecutiveChannels ==
    /\ \A k \in DOMAIN jobs :
          jobs[k].clip # 0 =>
              /\ strips[jobs[k].clip].frame_start = temp_extraction_start
              /\ strips[jobs[k].clip].channel =
                    extraction_start_channel + Cardinality(VerifiedUpTo(k)) - 1
    /\ \A k, l \in DOMAIN jobs :
          (k # l /\ jobs[k].clip # 0 /\ jobs[l].clip # 0) =>
              strips[jobs[k].clip].channel # strips[jobs[l].clip].channel

\* a value v of the monitoring loop on the 0..100 scale of the progress bar
Scaled(v) == <<100 * v[1], v[2]>>

\* the monitoring loop emits an update in this step
UpdateEmitted ==
    /\ pc = "monitor"
    /\ pc' = "monitor"
    /\ progress'.value # progress.value

\* C23, step by step: an update the monitoring loop emits for a progress
\* time t sets the bar, scaled 0..100, to 100 * min(t / duration, 1); it is
\* emitted only when that is more than 1 above the value last emitted in the
\* job, and it is never above 100.
C23_ProgressDrivenInPercent ==
    [][UpdateEmitted =>
          /\ \E t \in ProgressTimes :
                RatEq(progress'.value, Scaled(ParsedProgress(t, jobs[i].duration)))
          /\ RatLess(<<Scaled(proc.last_progress)[1] + proc.last_progress[2],
                       proc.last_progress[2]>>,
                     progress'.value)
          /\ ~RatLess(Percent(100), progress'.value)
      ]_vars

\* the probe ran to its end: it exited or was stopped at its timeout
ProbeExited(run) == run.raised = ""

\* the outcome of a scan whose probe exited or timed out: the error of a
\* nonzero exit, of blank output, of output that cannot be parsed, of the
\* timeout, else the streams in probe order
ScanOutcome(run, info) ==
    IF run.raised = "TimeoutExpired" THEN info.error = "ffprobe_timeout"
    ELSE IF ProbeExited(run) /\ run.returncode # 0 THEN info.error = "ffprobe_failed"
    ELSE IF ProbeExited(run) /\ run.stdout = "blank" THEN info.error = "ffprobe_empty_output"
    ELSE IF ProbeExited(run) /\ run.stdout = "malformed" THEN info.error = "json_decode_error"
    ELSE info.error = "" /\ info.streams = run.streams

\* C24 as stated: once the probe has run, execute is past the scan for good
\* (one invocation, no retry) and the scan gave the outcome of its probe run:
\* tool-failed for a nonzero exit whatever stdout holds, empty-output for
\* exit 0 with blank stdout, malformed-output for output that cannot be
\* parsed, timed-out for the timeout, and otherwise the streams in probe order.
C24_ScanOutcomes ==
    scan_run # NoScanRun =>
        /\ pc # "scan"
        /\ ScanOutcome(scan_run, found_audio_info)
        /\ found_audio_info.error # "" =>
              (found_audio_info.streams = <<>> /\ found_audio_info.detail # "")

\* C24 as amended: the same, and a probe that could not be run (any other
\* exception) gives the unexpected-error outcome.
C24_ScanOutcomesOrUnexpected ==
    scan_run # NoScanRun =>
        /\ pc # "scan"
        /\ IF scan_run.raised \notin {"", "TimeoutExpired"}
           THEN found_audio_info.error = "ffprobe_unexpected_error"
           ELSE ScanOutcome(scan_run, found_audio_info)
        /\ found_audio_info.error # "" =>
              (found_audio_info.streams = <<>> /\ found_audio_info.detail # "")

\* a run ended after the probe could not be started
C24_Witness ==
    /\ pc = "done"
    /\ scan_run.raised = "OSError"
    /\ found_audio_info.error = "ffprobe_unexpected_error"
    /\ status = "CANCELLED"

\* execute has returned one of its two statuses, CANCELLED exactly when an
\* error-level message was reported
ReturnedStatus ==
    /\ status \in {"FINISHED", "CANCELLED"}
    /\ (status = "CANCELLED") = ErrorReported

\* C25: every run ends, and ends by returning a status: FINISHED or
\* CANCELLED, no exception leaving execute once the progress bar has begun;
\* the status is CANCELLED if and only if an error-level message was
\* reported, and an error-level message is reported only by a step that
\* returns.
C25_EveryRunReturns ==
    /\ <>(pc = "done")
    /\ [](pc = "done" => ReturnedStatus)
    /\ [](pc # "done" => (status = "" /\ ~ErrorReported))

\* one of the pre-checks failed: no editor, several or no selected strips, or
\* no source file
PreCheckFailed ==
    \E r \in reports :
        r.text \in {"No sequence editor available", "Multiple strips selected",
                    "No video or audio strip selected", "Source file not found"}

\* C26: the progress bar is begun at most once, and only past the pre-checks;
\* it is not ended while execute runs; when execute has returned the bar has
\* been ended exactly once if it was begun, and not at all if it was not,
\* which is the case exactly when a pre-check failed.
C26_ProgressEndedOnce ==
    /\ progress.begun \in {0, 1}
    /\ (progress.begun = 1) = (pc # "start" /\ ~PreCheckFailed)
    /\ pc # "done" => progress.ended = 0
    /\ pc = "done" => progress.ended = progress.begun

\* execute returned through its outer except clause and the bar, begun once,
\* was ended once
C26_Witness ==
    /\ pc = "done"
    /\ \E r \in reports : r.text = "Failed to extract additional audio tracks"
    /\ progress.begun = 1
    /\ progress.ended = 1

\* strip w stands ungrouped in the temporary extraction area
LeftInWorkspace(w) ==
    /\ strips[w].parent = 0
    /\ strips[w].frame_start = temp_extraction_start
    /\ strips[w].channel >= extraction_start_channel - 1

\* C27: when execute has returned, whatever the status, every strip the run
\* created is a child of the composite the run made, and neither the original
\* strip nor a created strip stands ungrouped in the temporary extraction
\* area.
C27_NoOrphans ==
    pc = "done" =>
        /\ \A c \in Range(created_audio_strips) :
              /\ composite # 0
              /\ strips[c].parent = composite
        /\ \A w \in Range(created_audio_strips) \cup ({selected_strip} \ {0}) :
              ~LeftInWorkspace(w)

====
